---- MODULE Spec2Model ----
(***************************************************************************)
(* BMPstat (src/bmpstat.py): a mutable byte buffer holding a BMP file, the *)
(* header fields and row geometry derived from it, and the bit-level       *)
(* accessors set_one / set_zero / set_payload; set_raw_image replaces the  *)
(* buffer.                                                                 *)
(*                                                                         *)
(* The buffer raw_image is a sequence of bytes (0..255).  Python indexes   *)
(* from 0, a TLA+ sequence from 1: byte k of the buffer is self[k + 1].   *)
(* A method that can raise is an operator returning a record with the      *)
(* field "raise" ("none" when it returns normally).                        *)
(***************************************************************************)
EXTENDS Integers, Sequences, FiniteSets, TLC

VARIABLES raw_image, prev, last, nops

vars == <<raw_image, prev, last, nops>>

---------------------------------------------------------------------------
(* Bounds of the model *)

\* number of calls in one run
MaxOps == 1

\* header fields of the initial images.  bits_per_pixel: 0 (degenerate),
\* 1 (sub-byte), 8 (one byte per pixel), 16 (two bytes per pixel, so that bit
\* positions 8..15 pass check_sublayer)
WidthSet == {0, 1, 2, 4}
HeightSet == {0, 1, 2}
BppSet == {0, 1, 8, 16}
\* payload offset of the initial images (past the 30 header bytes read)
OffsetSet == {32}
\* buffer length at construction: shorter than offset + payload size for the
\* largest images
LenSet == {40}
\* content of the bytes that are not header fields (10100101)
FillByte == {165}
\* arguments of the calls
ISet == {-1, 0, 1, 3}
JSet == {-1, 0, 1}
LayerSet == {-1, 0, 1}
SublayerSet == {-1, 0, 1, 8}
PayloadLenSet == {0, 3, 4, 5, 8, 16}
PayloadByte == {90}

\* headers given to the geometry calculator
GeoMaxWidth == 8
GeoMaxHeight == 3
GeoBppSet == {0, 1, 4, 8, 12, 24}
GeoOffsetSet == {54}

\* bytes of the header fields given to the header reader
HdrByte == {0, 1, 128, 255}
HdrTopByte == {0, 255}

---------------------------------------------------------------------------
(* Python primitives *)

Min(a, b) == IF a < b THEN a ELSE b
Max(a, b) == IF a > b THEN a ELSE b

RECURSIVE Pow2(_)
Pow2(n) == IF n = 0 THEN 1 ELSE 2 * Pow2(n - 1)

\* a | b, a & b, a ^ b on non-negative integers
RECURSIVE BitOr(_, _)
BitOr(a, b) ==
    IF a = 0 THEN b
    ELSE IF b = 0 THEN a
    ELSE (IF a % 2 = 1 \/ b % 2 = 1 THEN 1 ELSE 0) + 2 * BitOr(a \div 2, b \div 2)

RECURSIVE BitAnd(_, _)
BitAnd(a, b) ==
    IF a = 0 \/ b = 0 THEN 0
    ELSE (IF a % 2 = 1 /\ b % 2 = 1 THEN 1 ELSE 0) + 2 * BitAnd(a \div 2, b \div 2)

RECURSIVE BitXor(_, _)
BitXor(a, b) ==
    IF a = 0 THEN b
    ELSE IF b = 0 THEN a
    ELSE (IF a % 2 # b % 2 THEN 1 ELSE 0) + 2 * BitXor(a \div 2, b \div 2)

\* bit s of the non-negative integer b
Bit(b, s) == (b \div Pow2(s)) % 2

\* self[a:b] for 0 <= a <= b: a slice is clamped to the buffer, it never raises
Slice(self, a, b) == SubSeq(self, Min(a, Len(self)) + 1, Min(b, Len(self)))

\* int.from_bytes(bs, byteorder='little'): unsigned (signed defaults to False)
RECURSIVE from_bytes(_)
from_bytes(bs) == IF bs = <<>> THEN 0 ELSE Head(bs) + 256 * from_bytes(Tail(bs))

\* int.from_bytes of a 4-byte field as two 16-bit halves <<lo, hi>>, the
\* integer lo + 65536 * hi (the whole value can exceed TLC's 32-bit integers)
from_bytes_halves(bs) ==
    <<from_bytes(SubSeq(bs, 1, Min(2, Len(bs)))), from_bytes(SubSeq(bs, 3, Len(bs)))>>

\* math.ceil(x / 8) for x >= 0
ceil_div8(x) == (x + 7) \div 8

\* the position Python's self.raw_image[offset] denotes: a negative offset
\* counts from the end; -1 when it raises IndexError
PyIndex(self, offset) ==
    LET k == IF offset < 0 THEN offset + Len(self) ELSE offset
    IN  IF k >= 0 /\ k < Len(self) THEN k ELSE -1

\* self[a:b] = payload for 0 <= a <= b: the clamped slice is replaced by the
\* whole payload, whatever its length
SliceAssign(self, a, b, payload) ==
    LET s == Min(a, Len(self))
        e == Max(Min(b, Len(self)), s)
    IN  SubSeq(self, 1, s) \o payload \o SubSeq(self, e + 1, Len(self))

---------------------------------------------------------------------------
(* Header reader *)

get_offset(self) == from_bytes(Slice(self, 10, 14))

get_size(self) == <<from_bytes(Slice(self, 18, 22)), from_bytes(Slice(self, 22, 26))>>

get_bpp(self) == from_bytes(Slice(self, 28, 30))

\* get_offset and get_size on fields of any content: each 4-byte value is
\* given as its halves <<lo, hi>>; get_size is <<width, height>>
get_offset_halves(self) == from_bytes_halves(Slice(self, 10, 14))
get_size_halves(self) ==
    <<from_bytes_halves(Slice(self, 18, 22)), from_bytes_halves(Slice(self, 22, 26))>>

---------------------------------------------------------------------------
(* Geometry calculator *)

get_Bpp(self) == Max(1, get_bpp(self) \div 8)

get_rowsize_bpp(self) == get_bpp(self) * get_size(self)[1]

get_rowsize(self) == ceil_div8(get_rowsize_bpp(self))

\* the padding without the outer mod 4
get_padding_no_outer_mod(self) == 4 - ((get_size(self)[1] * get_Bpp(self)) % 4)

get_padding(self) ==
    LET row_padding == 4 - ((get_size(self)[1] * get_Bpp(self)) % 4)
    IN  row_padding % 4

get_eff_rowsize(self) == get_rowsize(self) + get_padding(self)

get_payload_size(self) == get_size(self)[2] * get_eff_rowsize(self)

get_payload(self) ==
    Slice(self, get_offset(self), get_offset(self) + get_payload_size(self))

---------------------------------------------------------------------------
(* Pixel bit accessor *)

check_width(self, w) ==
    IF w < 0 \/ w >= get_size(self)[1] THEN "ValueNotInExcludeEnd" ELSE "none"

check_height(self, h) ==
    IF h < 0 \/ h >= get_size(self)[2] THEN "ValueNotInExcludeEnd" ELSE "none"

check_layer(self, layer) ==
    IF layer >= get_Bpp(self) THEN "ValueNotInExcludeEnd" ELSE "none"

check_sublayer(self, sublayer) ==
    IF sublayer >= get_bpp(self) THEN "ValueNotInExcludeEnd" ELSE "none"

\* get_pixel_offset with the rows taken as unpadded
get_pixel_offset_unpadded(self, i, j) ==
    IF i < 0 \/ i >= get_size(self)[1] \/ j < 0 \/ j >= get_size(self)[2]
    THEN [raise |-> "ValueNotInExcludeEnd", value |-> 0]
    ELSE [raise |-> "none",
          value |-> get_offset(self) + j * get_rowsize(self) + i * get_Bpp(self)]

\* [raise, value]: value is the offset when raise = "none"
get_pixel_offset(self, i, j) ==
    LET size == get_size(self)
    IN
    IF i < 0 \/ i >= size[1]
    THEN [raise |-> "ValueNotInExcludeEnd", value |-> 0]
    ELSE IF j < 0 \/ j >= size[2]
    THEN [raise |-> "ValueNotInExcludeEnd", value |-> 0]
    ELSE [raise |-> "none",
          value |-> get_offset(self) + j * get_eff_rowsize(self) + i * get_Bpp(self)]

\* bitmask_one writing the byte after the one it read
bitmask_one_next_byte(self, offset, sublayer) ==
    IF sublayer < 0 THEN [raise |-> "ValueError", raw_image |-> self]
    ELSE IF PyIndex(self, offset) = -1 \/ PyIndex(self, offset + 1) = -1
    THEN [raise |-> "IndexError", raw_image |-> self]
    ELSE LET k == PyIndex(self, offset)
             v == BitOr(self[k + 1], Pow2(sublayer))
         IN  IF v > 255 THEN [raise |-> "ValueError", raw_image |-> self]
             ELSE [raise |-> "none", raw_image |-> [self EXCEPT ![k + 2] = v]]

\* the closure bitmask of set_one: mask = 1 << sublayer raises ValueError on a
\* negative shift count; reading raw_image[offset] raises IndexError outside
\* the buffer; storing a value above 255 in a bytearray raises ValueError
bitmask_one(self, offset, sublayer) ==
    IF sublayer < 0 THEN [raise |-> "ValueError", raw_image |-> self]
    ELSE IF PyIndex(self, offset) = -1 THEN [raise |-> "IndexError", raw_image |-> self]
    ELSE LET k == PyIndex(self, offset)
             v == BitOr(self[k + 1], Pow2(sublayer))
         IN  IF v > 255 THEN [raise |-> "ValueError", raw_image |-> self]
             ELSE [raise |-> "none", raw_image |-> [self EXCEPT ![k + 1] = v]]

\* the closure bitmask of set_zero: mask = 0xFF ^ (1 << sublayer)
bitmask_zero(self, offset, sublayer) ==
    IF sublayer < 0 THEN [raise |-> "ValueError", raw_image |-> self]
    ELSE IF PyIndex(self, offset) = -1 THEN [raise |-> "IndexError", raw_image |-> self]
    ELSE LET k == PyIndex(self, offset)
             v == BitAnd(self[k + 1], BitXor(255, Pow2(sublayer)))
         IN  [raise |-> "none", raw_image |-> [self EXCEPT ![k + 1] = v]]

\* bitmask is the closure to apply: "one" (set_one) or "zero" (set_zero),
\* with the sublayer it captured
apply_bitmask(self, i, j, layer, bitmask, sublayer) ==
    LET cw == check_width(self, i)
        ch == check_height(self, j)
        cl == check_layer(self, layer)
        po == get_pixel_offset(self, i, j)
    IN  IF cw # "none" THEN [raise |-> cw, raw_image |-> self]
        ELSE IF ch # "none" THEN [raise |-> ch, raw_image |-> self]
        ELSE IF cl # "none" THEN [raise |-> cl, raw_image |-> self]
        ELSE IF po.raise # "none" THEN [raise |-> po.raise, raw_image |-> self]
        ELSE IF bitmask = "one" THEN bitmask_one(self, po.value + layer, sublayer)
        ELSE bitmask_zero(self, po.value + layer, sublayer)

set_one(self, i, j, layer, sublayer) ==
    LET cs == check_sublayer(self, sublayer)
    IN  IF cs # "none" THEN [raise |-> cs, raw_image |-> self]
        ELSE apply_bitmask(self, i, j, layer, "one", sublayer)

set_zero(self, i, j, layer, sublayer) ==
    LET cs == check_sublayer(self, sublayer)
    IN  IF cs # "none" THEN [raise |-> cs, raw_image |-> self]
        ELSE apply_bitmask(self, i, j, layer, "zero", sublayer)

\* set_payload refusing only a payload that is too long
set_payload_accepts_short(self, payload) ==
    LET start == get_offset(self)
        payload_size == get_payload_size(self)
    IN  IF Len(payload) > payload_size
        THEN [raise |-> "ValueError", raw_image |-> self]
        ELSE [raise |-> "none",
              raw_image |-> SliceAssign(self, start, start + payload_size, payload)]

set_payload(self, payload) ==
    LET start == get_offset(self)
        payload_size == get_payload_size(self)
    IN  IF Len(payload) # payload_size
        THEN [raise |-> "ValueError", raw_image |-> self]
        ELSE [raise |-> "none",
              raw_image |-> SliceAssign(self, start, start + payload_size, payload)]

get_raw_image(self) == self

\* self.raw_image = bytearray(raw_image): the buffer becomes a copy of the
\* argument, whatever its length; it never raises on a byte sequence
set_raw_image(self, new_image) == [raise |-> "none", raw_image |-> new_image]

---------------------------------------------------------------------------
(* The accessor as a state machine *)

\* the little-endian bytes of a small header value
RECURSIVE Field(_, _)
Field(v, n) == IF n = 0 THEN <<>> ELSE <<v % 256>> \o Field(v \div 256, n - 1)

\* a buffer of length n whose header declares (offset, width, height, bpp);
\* every other byte is fill
MakeImage(n, offset, width, height, bpp, fill) ==
    [k \in 1 .. n |->
        IF k - 1 \in 10 .. 13 THEN Field(offset, 4)[k - 10]
        ELSE IF k - 1 \in 18 .. 21 THEN Field(width, 4)[k - 18]
        ELSE IF k - 1 \in 22 .. 25 THEN Field(height, 4)[k - 22]
        ELSE IF k - 1 \in 28 .. 29 THEN Field(bpp, 2)[k - 28]
        ELSE fill]

NoCall == [op |-> "init", args |-> <<>>, raise |-> "none", result |-> <<>>]

\* __init__(raw_image)
Init ==
    /\ \E n \in LenSet, offset \in OffsetSet, width \in WidthSet,
          height \in HeightSet, bpp \in BppSet, fill \in FillByte :
            raw_image = MakeImage(n, offset, width, height, bpp, fill)
    /\ prev = raw_image
    /\ last = NoCall
    /\ nops = 0

SetOne ==
    /\ nops < MaxOps
    /\ \E i \in ISet, j \in JSet, layer \in LayerSet, sublayer \in SublayerSet :
        LET r == set_one(raw_image, i, j, layer, sublayer)
        IN  /\ raw_image' = r.raw_image
            /\ last' = [op |-> "set_one", args |-> <<i, j, layer, sublayer>>,
                        raise |-> r.raise, result |-> <<>>]
    /\ prev' = raw_image
    /\ nops' = nops + 1

SetZero ==
    /\ nops < MaxOps
    /\ \E i \in ISet, j \in JSet, layer \in LayerSet, sublayer \in SublayerSet :
        LET r == set_zero(raw_image, i, j, layer, sublayer)
        IN  /\ raw_image' = r.raw_image
            /\ last' = [op |-> "set_zero", args |-> <<i, j, layer, sublayer>>,
                        raise |-> r.raise, result |-> <<>>]
    /\ prev' = raw_image
    /\ nops' = nops + 1

SetPayload ==
    /\ nops < MaxOps
    /\ \E n \in PayloadLenSet, b \in PayloadByte :
        LET r == set_payload(raw_image, [k \in 1 .. n |-> b])
        IN  /\ raw_image' = r.raw_image
            /\ last' = [op |-> "set_payload", args |-> <<n, b>>,
                        raise |-> r.raise, result |-> <<>>]
    /\ prev' = raw_image
    /\ nops' = nops + 1

\* buffers given to set_raw_image: one shorter than the header, and images
\* of other lengths and widths than the current one
NewImageSet ==
    {[k \in 1 .. 8 |-> 0]}
        \cup {MakeImage(n, 32, width, 1, 8, 0) : n \in {36, 44}, width \in {1, 4}}

SetRawImage ==
    /\ nops < MaxOps
    /\ \E new_image \in NewImageSet :
        LET r == set_raw_image(raw_image, new_image)
        IN  /\ raw_image' = r.raw_image
            /\ last' = [op |-> "set_raw_image", args |-> <<Len(new_image)>>,
                        raise |-> r.raise, result |-> <<>>]
    /\ prev' = raw_image
    /\ nops' = nops + 1

Next == SetOne \/ SetZero \/ SetPayload \/ SetRawImage

Spec == Init /\ [][Next]_vars

---------------------------------------------------------------------------
(* The geometry calculator applied to headers: the buffer is never changed *)

\* a buffer holding just the header (no pixel array is read by the geometry)
GeoInit ==
    /\ \E offset \in GeoOffsetSet, width \in 0 .. GeoMaxWidth,
          height \in 0 .. GeoMaxHeight, bpp \in GeoBppSet :
            raw_image = MakeImage(32, offset, width, height, bpp, 0)
    /\ prev = raw_image
    /\ last = NoCall
    /\ nops = 0

GetPadding ==
    /\ nops < MaxOps
    /\ last' = [op |-> "get_padding", args |-> <<>>, raise |-> "none",
                result |-> <<get_padding(raw_image)>>]
    /\ nops' = nops + 1
    /\ UNCHANGED <<raw_image, prev>>

GetRowsize ==
    /\ nops < MaxOps
    /\ last' = [op |-> "get_rowsize", args |-> <<>>, raise |-> "none",
                result |-> <<get_rowsize(raw_image)>>]
    /\ nops' = nops + 1
    /\ UNCHANGED <<raw_image, prev>>

GetEffRowsize ==
    /\ nops < MaxOps
    /\ last' = [op |-> "get_eff_rowsize", args |-> <<>>, raise |-> "none",
                result |-> <<get_eff_rowsize(raw_image)>>]
    /\ nops' = nops + 1
    /\ UNCHANGED <<raw_image, prev>>

GetPixelOffset ==
    /\ nops < MaxOps
    /\ \E i \in -1 .. GeoMaxWidth, j \in -1 .. GeoMaxHeight :
        LET r == get_pixel_offset(raw_image, i, j)
        IN  last' = [op |-> "get_pixel_offset", args |-> <<i, j>>, raise |-> r.raise,
                     result |-> IF r.raise = "none" THEN <<r.value>> ELSE <<>>]
    /\ nops' = nops + 1
    /\ UNCHANGED <<raw_image, prev>>

GeoNext == GetPadding \/ GetRowsize \/ GetEffRowsize \/ GetPixelOffset

SpecGeometry == GeoInit /\ [][GeoNext]_vars

---------------------------------------------------------------------------
(* The header reader applied to arbitrary field bytes *)

\* a 32-byte buffer whose header fields hold the given byte sequences
HeaderImage(offset, width, height, bpp) ==
    [k \in 1 .. 32 |->
        IF k - 1 \in 10 .. 13 THEN offset[k - 10]
        ELSE IF k - 1 \in 18 .. 21 THEN width[k - 18]
        ELSE IF k - 1 \in 22 .. 25 THEN height[k - 22]
        ELSE IF k - 1 \in 28 .. 29 THEN bpp[k - 28]
        ELSE 0]

HdrInit ==
    /\ \E w1 \in HdrByte, w2 \in HdrByte, w4 \in HdrByte,
          h4 \in HdrTopByte, o4 \in HdrTopByte, b2 \in HdrTopByte :
            raw_image = HeaderImage(<<54, 0, 0, o4>>, <<w1, w2, w2, w4>>,
                                    <<1, 0, 0, h4>>, <<24, b2>>)
    /\ prev = raw_image
    /\ last = NoCall
    /\ nops = 0

GetOffset ==
    /\ nops < MaxOps
    /\ last' = [op |-> "get_offset", args |-> <<>>, raise |-> "none",
                result |-> get_offset_halves(raw_image)]
    /\ nops' = nops + 1
    /\ UNCHANGED <<raw_image, prev>>

GetSize ==
    /\ nops < MaxOps
    /\ last' = [op |-> "get_size", args |-> <<>>, raise |-> "none",
                result |-> get_size_halves(raw_image)[1] \o get_size_halves(raw_image)[2]]
    /\ nops' = nops + 1
    /\ UNCHANGED <<raw_image, prev>>

GetBpp ==
    /\ nops < MaxOps
    /\ last' = [op |-> "get_bpp", args |-> <<>>, raise |-> "none",
                result |-> <<get_bpp(raw_image)>>]
    /\ nops' = nops + 1
    /\ UNCHANGED <<raw_image, prev>>

HdrNext == GetOffset \/ GetSize \/ GetBpp

SpecHeader == HdrInit /\ [][HdrNext]_vars

---------------------------------------------------------------------------
(* Properties of set_one / set_zero / set_payload (specification Spec).    *)
(* prev is the buffer before the last call, last the call and its outcome. *)

IsBitOp == last.op \in {"set_one", "set_zero"}

\* the header values the last call saw
Width == get_size(prev)[1]
Height == get_size(prev)[2]

\* a coordinate of the last set_one / set_zero call lies outside its range
OutOfRange ==
    \/ last.args[1] < 0 \/ last.args[1] >= Width
    \/ last.args[2] < 0 \/ last.args[2] >= Height
    \/ last.args[3] < 0 \/ last.args[3] >= get_Bpp(prev)
    \/ last.args[4] < 0 \/ last.args[4] >= get_bpp(prev)

\* check_width, check_height and check_layer accept the last call's (i, j, layer)
Accepted ==
    /\ check_width(prev, last.args[1]) = "none"
    /\ check_height(prev, last.args[2]) = "none"
    /\ check_layer(prev, last.args[3]) = "none"

\* the byte index the last call's apply_bitmask uses
TargetOffset == get_pixel_offset(prev, last.args[1], last.args[2]).value + last.args[3]

\* C1: a set_one / set_zero call with a coordinate outside its range (negative
\* values included) ends in the out-of-range error and leaves the buffer as
\* it was.
C1_OutOfRangeRejected ==
    (IsBitOp /\ OutOfRange) =>
        (last.raise = "ValueNotInExcludeEnd" /\ raw_image = prev)

\* C2: when the four checks accept (i, j, layer, sublayer), sublayer anywhere
\* in [0, bits_per_pixel), and the target byte is in the buffer, the call
\* returns with bit `sublayer` of that byte 1 (set_one) or 0 (set_zero) and
\* the other bits of the byte as before.
C2_RoundTrip ==
    (/\ IsBitOp
     /\ Accepted
     /\ check_sublayer(prev, last.args[4]) = "none"
     /\ last.args[4] >= 0
     /\ PyIndex(prev, TargetOffset) # -1) =>
        LET k == PyIndex(prev, TargetOffset) + 1
            s == last.args[4]
        IN  /\ last.raise = "none"
            /\ Bit(raw_image[k], s) = (IF last.op = "set_one" THEN 1 ELSE 0)
            /\ \A t \in 0 .. 7 : t # s => Bit(raw_image[k], t) = Bit(prev[k], t)

\* C3: a set_one / set_zero call that returns normally changes no byte other
\* than the one at index pixel_offset(i, j) + layer, and keeps the length.
C3_OnlyTargetByteChanges ==
    (IsBitOp /\ last.raise = "none") =>
        /\ Len(raw_image) = Len(prev)
        /\ \A k \in 1 .. Len(prev) :
              k # PyIndex(prev, TargetOffset) + 1 => raw_image[k] = prev[k]

\* C3 witness: a call returned normally and changed the buffer
C3_Witness == IsBitOp /\ last.raise = "none" /\ raw_image # prev

\* C6: set_payload with a byte count different from payload_size fails with
\* the size-mismatch error (ValueError) and leaves the buffer as it was.
C6_PayloadSizeMismatch ==
    (last.op = "set_payload" /\ last.args[1] # get_payload_size(prev)) =>
        (last.raise = "ValueError" /\ raw_image = prev)

\* C6 witness: set_payload was called with payload_size - 1 bytes and failed
C6_Witness ==
    /\ last.op = "set_payload"
    /\ last.args[1] = get_payload_size(prev) - 1
    /\ last.raise = "ValueError"

\* C7: no set_one, set_zero or set_payload call resizes the buffer, whether it
\* returns or raises, also when the header declares payload_offset +
\* payload_size beyond the buffer (set_raw_image, which supplies a new buffer,
\* is not among the calls the claim names).
C7_LengthKept ==
    last.op \in {"set_one", "set_zero", "set_payload"} => Len(raw_image) = Len(prev)

\* C9: for every (i, j, layer) that check_width, check_height and check_layer
\* accept, the byte index used lies in row j's raw bytes:
\* payload_offset + j * effective_row_size <= index < that + raw_row_size.
C9_IndexInsideRow ==
    (IsBitOp /\ Accepted) =>
        LET row == get_offset(prev) + last.args[2] * get_eff_rowsize(prev)
        IN  row <= TargetOffset /\ TargetOffset < row + get_rowsize(prev)

---------------------------------------------------------------------------
(* Properties of the geometry calculator (specification SpecGeometry) *)

\* C4: get_padding returns p in {0, 1, 2, 3} with (width * Bpp + p) mod 4 = 0,
\* and p = 0 whenever (width * Bpp) mod 4 = 0.
C4_Padding ==
    last.op = "get_padding" =>
        LET p == last.result[1]
            row_bytes == get_size(raw_image)[1] * get_Bpp(raw_image)
        IN  /\ p \in {0, 1, 2, 3}
            /\ (row_bytes + p) % 4 = 0
            /\ (row_bytes % 4 = 0 => p = 0)

\* C4 witness: get_padding was called on a non-empty row that is already a
\* multiple of 4 bytes (the case the outer mod 4 exists for)
C4_Witness ==
    /\ last.op = "get_padding"
    /\ get_size(raw_image)[1] > 0
    /\ (get_size(raw_image)[1] * get_Bpp(raw_image)) % 4 = 0
    /\ last.result[1] = 0

\* the last call was get_pixel_offset(i, j), it returned, and row j + 1 exists
RowStep ==
    /\ last.op = "get_pixel_offset"
    /\ last.raise = "none"
    /\ last.args[2] + 1 < get_size(raw_image)[2]

\* get_pixel_offset(i, j + 1) - get_pixel_offset(i, j) is effective_row_size
\* and is positive
StrideIsEffRowsize ==
    LET next == get_pixel_offset(raw_image, last.args[1], last.args[2] + 1).value
    IN  /\ next - last.result[1] = get_eff_rowsize(raw_image)
        /\ next > last.result[1]

\* C5 as stated: for every header, i in [0, width) and j, j + 1 in [0, height),
\* pixel_offset(i, j + 1) - pixel_offset(i, j) = effective_row_size, and the
\* offset strictly increases with j.
C5_StrideEveryHeader == RowStep => StrideIsEffRowsize

\* C5 amended: the same for every header with bits_per_pixel >= 1.
C5_StridePositiveBpp == (RowStep /\ get_bpp(raw_image) >= 1) => StrideIsEffRowsize

\* C5 witness: an offset was computed for a padded row with a row above it
C5_Witness ==
    /\ RowStep
    /\ get_bpp(raw_image) >= 1
    /\ get_padding(raw_image) > 0
    /\ last.args[1] > 0

\* C10: effective_row_size = get_rowsize() + get_padding() is a multiple of 4
\* for every width >= 0 and every bits_per_pixel.
C10_EffRowsizeMultipleOf4 ==
    last.op = "get_eff_rowsize" => last.result[1] % 4 = 0

---------------------------------------------------------------------------
(* Properties of the header reader (specification SpecHeader).  A 4-byte   *)
(* value v is given as <<lo, hi>> with v = lo + 65536 * hi, 0 <= lo < 65536: *)
(* v is in [-2^31, 2^31) iff hi is in [-32768, 32768), and v is in         *)
(* [0, 2^32) iff hi is in [0, 65536).                                      *)

\* bytes [a, a + 4) of the buffer read as unsigned / as two's complement
UnsignedAt(a) ==
    <<raw_image[a + 1] + 256 * raw_image[a + 2],
      raw_image[a + 3] + 256 * raw_image[a + 4]>>
SignedAt(a) ==
    <<raw_image[a + 1] + 256 * raw_image[a + 2],
      raw_image[a + 3] + 256 * raw_image[a + 4]
        - (IF raw_image[a + 4] >= 128 THEN 65536 ELSE 0)>>

\* C8: get_size returns the signed 32-bit little-endian reading of bytes
\* [18, 22) and [22, 26), each within [-2^31, 2^31); get_offset and get_bpp
\* return the unsigned little-endian values of bytes [10, 14) and [28, 30).
C8_SignedSize ==
    /\ last.op = "get_size" =>
          /\ last.result = SignedAt(18) \o SignedAt(22)
          /\ last.result[2] \in -32768 .. 32767
          /\ last.result[4] \in -32768 .. 32767
    /\ last.op = "get_offset" => last.result = UnsignedAt(10)
    /\ last.op = "get_bpp" =>
          last.result = <<raw_image[29] + 256 * raw_image[30]>>

====
